---- MODULE Spec2Model ----
(***************************************************************************)
(* pyomechanics: marker graph, virtual-marker synthesis, segment frames.   *)
(*                                                                         *)
(* Positions are fixed-point integers in quarter units: a measured         *)
(* coordinate is a multiple of 4, so every mean of the landmark table      *)
(* (one or two parents, nesting depth two) is exact.  A sample of a marker *)
(* channel is a point [nan, v]: nan = TRUE is numpy's not-a-number.        *)
(* Angles are whole degrees, [nan, v] as well.  The trial is run twice in  *)
(* lockstep: `markers` from the file as read, `ref` from the same file     *)
(* with every sample defined.                                              *)
(***************************************************************************)
EXTENDS Integers, Sequences, FiniteSets, TLC

VARIABLES
    input,       \* list(markers.data.keys()) of the trial as read from file
    markers,     \* the driver's `markers` time series: channel name -> samples
    g,           \* the marker graph built for the trial
    part_names,  \* the driver's list of is_custom nodes
    ts,          \* add_custom_markers' local `markers` while it runs
    i,           \* index of add_custom_markers' loop over part_names
    j,           \* index of the driver's loop over parts
    pc,          \* position in the driver
    err,         \* exception that ended the trial, or "none"
    run,         \* how many times add_custom_markers has been entered
    first,       \* the time series returned by the first synthesis
    part,        \* a Part constructed outside the catalog, or NoPart
    call,        \* arguments of the last ktk.geometry.create_frames call
    ref,         \* the same trial's time series had no sample been undefined
    out,         \* the last Joint.angles call: its arguments and what it returned
    metadata,    \* what parse_c3d_file_path returned for the trial's file
    nj,          \* position of `for joint in joints`
    df_joint_angles,   \* the trial's table: column name -> values per sample
    dfs,         \* the tables of the trials processed, in order
    c3d_swings   \* the trials read so far: the file's points and its metadata

\* the variables of the batch driver's table
tableVars == <<metadata, nj, df_joint_angles, dfs, c3d_swings>>

vars == <<input, markers, g, part_names, ts, i, j, pc, err, run, first, part,
          call, ref, out, metadata, nj, df_joint_angles, dfs, c3d_swings>>

----------------------------------------------------------------------------
(* Bounds of the model *)

MaxMissing == 1
MaxSupplied == 1
NSamples == 2

----------------------------------------------------------------------------
(* Generic helpers *)

SeqToSet(s) == {s[k] : k \in DOMAIN s}

None == <<>>

Samples == 1..NSamples

----------------------------------------------------------------------------
(* Marker vocabulary *)

\* measured markers named by the landmark derivation table
TableMarkers ==
    << "RSHO", "LSHO", "T10", "STRN", "RELB", "RMELB", "LELB", "LMELB",
       "RWRA", "RWRB", "LWRA", "RASI", "RPSI", "LASI", "LPSI",
       "RKNE", "RMKNE", "LKNE", "LMKNE", "RANK", "RMANK", "LANK", "LMANK",
       "RHEE", "LHEE" >>

\* measured markers named only by the Part catalog, and one named nowhere
OtherMarkers ==
    << "LWRB", "RFIN", "LFIN", "RTHI", "LTHI", "RTIB", "LTIB", "RTOE", "LTOE",
       "C7" >>

RealMarkers == TableMarkers \o OtherMarkers

VirtualNames ==
    << "torso_m", "thorax_m", "shoulder_r", "shoulder_l", "elbow_r", "elbow_l",
       "scapula_r", "scapula_l", "wrist_r", "wrist_l", "hip_r", "hip_l",
       "pelvis_m", "knee_r", "knee_l", "ankle_r", "ankle_l", "heel_r", "heel_l" >>

EdgeTable ==
    << <<"RSHO", "torso_m">>, <<"LSHO", "torso_m">>,
       <<"T10", "thorax_m">>, <<"STRN", "thorax_m">>,
       <<"RSHO", "shoulder_r">>, <<"LSHO", "shoulder_l">>,
       <<"RELB", "elbow_r">>, <<"RMELB", "elbow_r">>,
       <<"LELB", "elbow_l">>, <<"LMELB", "elbow_l">>,
       <<"RSHO", "scapula_r">>, <<"torso_m", "scapula_r">>,
       <<"LSHO", "scapula_l">>, <<"torso_m", "scapula_l">>,
       <<"RWRA", "wrist_r">>, <<"RWRB", "wrist_r">>,
       <<"LWRA", "wrist_l">>,
       <<"RASI", "hip_r">>, <<"RPSI", "hip_r">>,
       <<"LASI", "hip_l">>, <<"LPSI", "hip_l">>,
       <<"hip_l", "pelvis_m">>, <<"hip_r", "pelvis_m">>,
       <<"RKNE", "knee_r">>, <<"RMKNE", "knee_r">>,
       <<"LKNE", "knee_l">>, <<"LMKNE", "knee_l">>,
       <<"RANK", "ankle_r">>, <<"RMANK", "ankle_r">>,
       <<"LANK", "ankle_l">>, <<"LMANK", "ankle_l">>,
       <<"RHEE", "heel_r">>, <<"LHEE", "heel_l">> >>

AllNames == RealMarkers \o VirtualNames

----------------------------------------------------------------------------
(* Points *)

P(x, y, z) == [nan |-> FALSE, v |-> <<x, y, z>>]

NaN3 == [nan |-> TRUE, v |-> <<0, 0, 0>>]

VSub(p, q) ==
    IF p.nan \/ q.nan THEN NaN3
    ELSE P(p.v[1] - q.v[1], p.v[2] - q.v[2], p.v[3] - q.v[3])

RECURSIVE SumCoord(_, _)
SumCoord(ps, c) ==
    IF ps = <<>> THEN 0 ELSE Head(ps).v[c] + SumCoord(Tail(ps), c)

\* np.mean(..., axis=0) restricted to one sample: ps is the list of the
\* parents' points at that sample
Mean(ps) ==
    IF Len(ps) = 0 \/ \E k \in DOMAIN ps : ps[k].nan THEN NaN3
    ELSE P(SumCoord(ps, 1) \div Len(ps),
           SumCoord(ps, 2) \div Len(ps),
           SumCoord(ps, 3) \div Len(ps))

----------------------------------------------------------------------------
(* networkx.DiGraph as used by generate_marker_graph *)

\* the elements of s at the positions K, in order
PickAt(s, K) ==
    LET pos == [r \in 1..Cardinality(K) |->
                   CHOOSE k \in K : Cardinality({m \in K : m < k}) = r - 1]
    IN  [r \in 1..Cardinality(K) |-> s[pos[r]]]

\* a name that is a node already keeps its place; a new one is appended
add_nodes_from(nodes, names) ==
    nodes \o PickAt(names,
                    {k \in DOMAIN names :
                        /\ names[k] \notin SeqToSet(nodes)
                        /\ \A m \in 1..(k - 1) : names[m] # names[k]})

\* edges that create no node
add_edges_only(nodes, edges) == nodes

\* add_edges_from creates the end points of an edge that are not nodes yet
add_edges_from(nodes, edges) ==
    add_nodes_from(nodes,
                   [k \in 1..(2 * Len(edges)) |->
                       edges[(k + 1) \div 2][2 - (k % 2)]])

\* the table with scapula_r feeding back into torso_m
generate_marker_graph_cyclic(marker_names) ==
    [ nodes     |-> add_edges_from(
                        add_nodes_from(add_nodes_from(<<>>, marker_names),
                                       VirtualNames),
                        EdgeTable),
      is_custom |-> SeqToSet(VirtualNames),
      edges     |-> Append(EdgeTable, <<"scapula_r", "torso_m">>) ]

generate_marker_graph(marker_names) ==
    [ nodes     |-> add_edges_from(
                        add_nodes_from(add_nodes_from(<<>>, marker_names),
                                       VirtualNames),
                        EdgeTable),
      is_custom |-> SeqToSet(VirtualNames),
      edges     |-> EdgeTable ]

EmptyGraph == [nodes |-> <<>>, is_custom |-> {}, edges |-> <<>>]

\* the is_custom nodes in reverse node order
CustomNodesReversed(gr) ==
    LET ns == SelectSeq(gr.nodes, LAMBDA n : n \in gr.is_custom)
    IN  [k \in 1..Len(ns) |-> ns[Len(ns) + 1 - k]]

\* [node for node, data in g.nodes.data() if data.get("is_custom")]
CustomNodes(gr) == SelectSeq(gr.nodes, LAMBDA n : n \in gr.is_custom)

\* list(g.predecessors(n))
predecessors(gr, n) ==
    LET es == SelectSeq(gr.edges, LAMBDA e : e[2] = n)
    IN  [k \in 1..Len(es) |-> es[k][1]]

----------------------------------------------------------------------------
(* ktk.TimeSeries channel table *)

Keys(series) == DOMAIN series

add_data(series, name, value) ==
    [k \in Keys(series) \cup {name} |-> IF k = name THEN value ELSE series[k]]

rename_data(series, old, new) ==
    [k \in (Keys(series) \ {old}) \cup {new} |->
        IF k = new THEN series[old] ELSE series[k]]

EmptySeries == [k \in {} |-> <<>>]

----------------------------------------------------------------------------
(* Trial input *)

MissingPool == {"RSHO", "LWRA", "RASI", "T10", "RTOE", "LWRB"}

SuppliedPool == {"torso_m", "scapula_r", "pelvis_m", "hip_r", "wrist_l"}

NaNPool == {"RSHO", "RANK"}

\* marker placements in which markers coincide (<<m, n>>: m sits on n) or
\* lie on one line
Placements ==
    { {},
      {<<"RMELB", "RELB">>},
      {<<"RTOE", "RHEE">>},
      {<<"RELB", "RWRA">>, <<"RMELB", "RWRA">>} }

Index(name) == CHOOSE k \in DOMAIN AllNames : AllNames[k] = name

\* the measured position of channel `name` at sample t
Raw(name, t) ==
    LET k == Index(name)
    IN  P(4 * (k + 3 * t), 4 * (((k * k) % 7) + t), 4 * ((3 * k + 2 * t) % 5))

InjectiveSeqs(S, n) ==
    UNION { { s \in [1..k -> S] : \A a, b \in 1..k : a # b => s[a] # s[b] }
            : k \in 0..n }

InputNames(missing, supplied) ==
    SelectSeq(RealMarkers, LAMBDA m : m \notin missing) \o supplied

\* the marker whose measured position channel m holds
PlacedOn(m, placement) ==
    IF \E q \in placement : q[1] = m
    THEN (CHOOSE q \in placement : q[1] = m)[2]
    ELSE m

InputSeries(names, nanAt, placement) ==
    [m \in SeqToSet(names) |->
        [t \in Samples |-> IF <<m, t>> \in nanAt THEN NaN3
                           ELSE Raw(PlacedOn(m, placement), t)]]

----------------------------------------------------------------------------
(* add_custom_markers, one loop iteration *)

\* `if part_name in list(markers.data.keys())`
PassThroughNever(series, part_name) == FALSE

PassThrough(series, part_name) == part_name \in Keys(series)

\* a lookup that skips the parents that are no channel
ParentsPresent(gr, series, part_name) ==
    SelectSeq(predecessors(gr, part_name), LAMBDA u : u \in Keys(series))

\* part_name_parents = list(g.predecessors(part_name)), each then looked up
\* in markers.data
Parents(gr, series, part_name) == predecessors(gr, part_name)

ParentsResolved(gr, series, part_name) ==
    \A k \in DOMAIN Parents(gr, series, part_name) :
        Parents(gr, series, part_name)[k] \in Keys(series)

\* the mean taken along the time axis as well: every sample gets sample 1's
ParentsAvgFirstSample(gr, series, part_name) ==
    LET parents == Parents(gr, series, part_name)
    IN  [t \in Samples |->
            Mean([k \in 1..Len(parents) |-> series[parents[k]][1]])]

ParentsAvg(gr, series, part_name) ==
    LET parents == Parents(gr, series, part_name)
    IN  [t \in Samples |->
            Mean([k \in 1..Len(parents) |-> series[parents[k]][t]])]

AddCustomMarker(gr, series, part_name) ==
    IF PassThrough(series, part_name)
    THEN rename_data(series, part_name, part_name)
    ELSE add_data(series, part_name, ParentsAvg(gr, series, part_name))

----------------------------------------------------------------------------
(* Part and its catalog *)

\* the two auxiliary fields stored crosswise
PartAuxSwapped(name, origin, y_direction, yz_direction, x_direction, xz_direction) ==
    [name |-> name, origin |-> origin,
     y_direction |-> y_direction, yz_direction |-> xz_direction,
     x_direction |-> x_direction, xz_direction |-> yz_direction]

Part(name, origin, y_direction, yz_direction, x_direction, xz_direction) ==
    [name |-> name, origin |-> origin,
     y_direction |-> y_direction, yz_direction |-> yz_direction,
     x_direction |-> x_direction, xz_direction |-> xz_direction]

upper_body_parts ==
    << Part("scapula_r", "scapula_r", <<"torso_m", "thorax_m">>, <<"torso_m", "RSHO">>, None, None),
       Part("scapula_l", "scapula_l", <<"torso_m", "thorax_m">>, <<"torso_m", "LSHO">>, None, None),
       Part("upper_arm_r", "RSHO", <<"RSHO", "elbow_r">>, <<"RMELB", "RELB">>, None, None),
       Part("upper_arm_l", "LSHO", <<"LSHO", "elbow_l">>, <<"LMELB", "LELB">>, None, None),
       Part("forearm_r", "wrist_r", <<"elbow_r", "wrist_r">>, <<"RWRA", "RWRB">>, None, None),
       Part("forearm_l", "wrist_l", <<"elbow_l", "wrist_l">>, <<"LWRA", "LWRB">>, None, None),
       Part("hand_r", "RFIN", <<"wrist_r", "RFIN">>, <<"RWRA", "RWRB">>, None, None),
       Part("hand_l", "LFIN", <<"wrist_l", "LFIN">>, <<"LWRA", "LWRB">>, None, None) >>

lower_body_parts ==
    << Part("hip_r", "hip_r", <<"thorax_m", "pelvis_m">>, <<"pelvis_m", "hip_r">>, None, None),
       Part("hip_l", "hip_l", <<"thorax_m", "pelvis_m">>, <<"pelvis_m", "hip_l">>, None, None),
       Part("upper_leg_r", "RTHI", <<"hip_r", "knee_r">>, <<"RMKNE", "RKNE">>, None, None),
       Part("upper_leg_l", "LTHI", <<"hip_l", "knee_l">>, <<"LMKNE", "LKNE">>, None, None),
       Part("lower_leg_r", "RTIB", <<"knee_r", "ankle_r">>, <<"RANK", "RMANK">>, None, None),
       Part("lower_leg_l", "LTIB", <<"knee_l", "ankle_l">>, <<"LANK", "LMANK">>, None, None),
       Part("foot_r", "RTOE", None, None, <<"RTOE", "RHEE">>, <<"RANK", "RMANK">>),
       Part("foot_l", "LTOE", None, None, <<"LTOE", "LHEE">>, <<"LMANK", "LANK">>),
       Part("heel_r", "RHEE", <<"RTIB", "RHEE">>, <<"RANK", "RMANK">>, None, None),
       Part("heel_l", "LHEE", <<"LTIB", "LHEE">>, <<"LMANK", "LANK">>, None, None) >>

parts == upper_body_parts \o lower_body_parts

\* every part writing the one channel
axis_frames_name_shared(p) == "frames"

axis_frames_name(p) == p.name \o "_frames"

\* Python truthiness of a direction field: None is false, a pair is true
IsSet(direction) == direction # None

----------------------------------------------------------------------------
(* Part.create_axis_frames *)

\* ts.data[b] - ts.data[a]
subtract_series_swapped(a, b, series) ==
    [t \in Samples |-> VSub(series[b][t], series[a][t])]

\* ts.data[a] - ts.data[b], sample by sample
subtract_series(a, b, series) ==
    [t \in Samples |-> VSub(series[a][t], series[b][t])]

Direction(direction, series) ==
    IF IsSet(direction)
    THEN subtract_series(direction[1], direction[2], series)
    ELSE None

\* the channels create_axis_frames reads
Referenced(p) ==
    {p.origin}
    \cup SeqToSet(p.y_direction) \cup SeqToSet(p.yz_direction)
    \cup SeqToSet(p.x_direction) \cup SeqToSet(p.xz_direction)

\* the auxiliary pair handed on as the primary direction as well
FrameArgsAuxForPrimary(p, series) ==
    [part   |-> p.name,
     origin |-> series[p.origin],
     y      |-> Direction(p.yz_direction, series),
     yz     |-> Direction(p.yz_direction, series),
     x      |-> Direction(p.xz_direction, series),
     xz     |-> Direction(p.xz_direction, series)]

FrameArgs(p, series) ==
    [part   |-> p.name,
     origin |-> series[p.origin],
     y      |-> Direction(p.y_direction, series),
     yz     |-> Direction(p.yz_direction, series),
     x      |-> Direction(p.x_direction, series),
     xz     |-> Direction(p.xz_direction, series)]

Cross(p, q) ==
    IF p.nan \/ q.nan THEN NaN3
    ELSE P(p.v[2] * q.v[3] - p.v[3] * q.v[2],
           p.v[3] * q.v[1] - p.v[1] * q.v[3],
           p.v[1] * q.v[2] - p.v[2] * q.v[1])

Neg(p) == IF p.nan THEN NaN3 ELSE P(0 - p.v[1], 0 - p.v[2], 0 - p.v[3])

\* an undefined or zero vector replaced by zeros
NormalizeFilled(p) == IF p.nan \/ p.v = <<0, 0, 0>> THEN P(0, 0, 0) ELSE p

\* v / |v|: the direction is kept (the positive length is not represented);
\* a zero vector gives 0/0
Normalize(p) == IF p.nan \/ p.v = <<0, 0, 0>> THEN NaN3 ELSE p

Frame(vx, vy, vz, o) == [x |-> vx, y |-> vy, z |-> vz, o |-> o]

\* ktk.geometry.create_frames for the keywords Part passes: the x+xz
\* combination, else the y+yz combination, else ValueError
create_frames(args) ==
    IF args.x # None /\ args.xz # None
    THEN [error |-> "none",
          frames |-> [t \in Samples |->
              LET vx == Normalize(args.x[t])
                  vy == Neg(Normalize(Cross(vx, args.xz[t])))
              IN  Frame(vx, vy, Cross(vx, vy), args.origin[t])]]
    ELSE IF args.y # None /\ args.yz # None
    THEN [error |-> "none",
          frames |-> [t \in Samples |->
              LET vy == Normalize(args.y[t])
                  vx == Normalize(Cross(vy, args.yz[t]))
              IN  Frame(vx, vy, Cross(vx, vy), args.origin[t])]]
    ELSE [error |-> "ValueError", frames |-> None]

----------------------------------------------------------------------------
(* Joints *)

\* an angle in whole degrees, or numpy's not-a-number
Deg(n) == [nan |-> FALSE, v |-> n]

NaN1 == [nan |-> TRUE, v |-> 0]

NaNAngles == <<NaN1, NaN1, NaN1>>

\* a joint constructed without side
Unsided == ""

\* a joint constructed with the other side's label
JointMirrored(type, proximal, distal, side) ==
    [type |-> type, proximal |-> proximal, distal |-> distal,
     side |-> IF side = "R" THEN "L" ELSE IF side = "L" THEN "R" ELSE side]

Joint(type, proximal, distal, side) ==
    [type |-> type, proximal |-> proximal, distal |-> distal, side |-> side]

upper_body_joints ==
    << Joint("Shoulder", parts[1], parts[3], "R"),
       Joint("Shoulder", parts[2], parts[4], "L"),
       Joint("Elbow", parts[3], parts[5], "R"),
       Joint("Elbow", parts[4], parts[6], "L"),
       Joint("Wrist", parts[5], parts[7], "R"),
       Joint("Wrist", parts[6], parts[8], "L") >>

lower_body_joints ==
    << Joint("Hip", parts[9], parts[11], "R"),
       Joint("Hip", parts[10], parts[12], "L"),
       Joint("Knee", parts[11], parts[13], "R"),
       Joint("Knee", parts[12], parts[14], "L"),
       Joint("Ankle", parts[17], parts[15], "R"),
       Joint("Ankle", parts[18], parts[16], "L") >>

joints == upper_body_joints \o lower_body_joints

\* the defaults of signs and adjustments declared by each angles method
DeclaredSigns(type) ==
    CASE type = "Shoulder" -> <<1, 1, 1>>
      [] type = "Elbow"    -> <<1, 1, 1>>
      [] type = "Wrist"    -> <<1, -1, 1>>
      [] type = "Hip"      -> <<-1, 1, 1>>
      [] type = "Knee"     -> <<1, 1, 1>>
      [] type = "Ankle"    -> <<1, 1, -1>>

DeclaredAdjustments(type) ==
    CASE type = "Elbow" -> <<0, 0, 180>>
      [] type = "Ankle" -> <<90, 0, 0>>
      [] OTHER          -> <<0, 0, 0>>

\* every entry of the 4x4 pose is a number
PoseDefined(f) == ~f.x.nan /\ ~f.y.nan /\ ~f.z.nan /\ ~f.o.nan

\* the distal pose alone decides whether the relative pose is a number
transforms_of_distal(joint, series) ==
    [t \in Samples |->
        [nan      |-> ~PoseDefined(series[axis_frames_name(joint.distal)][t]),
         distal   |-> series[axis_frames_name(joint.distal)][t],
         proximal |-> series[axis_frames_name(joint.proximal)][t]]]

\* Joint.transforms: the distal frames in the coordinates of the proximal
\* frames.  The relative pose is kept as the pair of poses; an undefined
\* entry in either pose leaves it undefined.
transforms(joint, series) ==
    [t \in Samples |->
        [nan      |-> ~(/\ PoseDefined(series[axis_frames_name(joint.distal)][t])
                        /\ PoseDefined(series[axis_frames_name(joint.proximal)][t])),
         distal   |-> series[axis_frames_name(joint.distal)][t],
         proximal |-> series[axis_frames_name(joint.proximal)][t]]]

\* the decomposition of every sample, whether its pose is a number or not
get_angles_of_any(T, euler) == [t \in Samples |-> euler[t]]

\* ktk.geometry.get_angles(T, angle_seq, degrees=True): euler[t] is the
\* Euler decomposition of a defined relative pose, in degrees
get_angles(T, euler) ==
    [t \in Samples |-> IF T[t].nan THEN NaNAngles ELSE euler[t]]

\* (angle + adjustment) * sign
ScaledOffsetFirst(a, sign, adjustment) ==
    IF a.nan THEN NaN1 ELSE Deg((a.v + adjustment) * sign)

\* (angle * sign) + adjustment
Scaled(a, sign, adjustment) ==
    IF a.nan THEN NaN1 ELSE Deg((a.v * sign) + adjustment)

\* Joint.angles
Joint_angles(joint, series, signs, adjustments, euler) ==
    [t \in Samples |->
        [axis \in 1..3 |->
            Scaled(get_angles(transforms(joint, series), euler)[t][axis],
                   signs[axis], adjustments[axis])]]

\* the signs each angles method hands to Joint.angles
Shoulder_signs(side, signs) == IF side = "R" THEN <<-1, 1, -1>> ELSE signs

\* the elbow rule giving way to signs that are not the declared default
Elbow_signs_unless_given(side, signs) ==
    IF signs # <<1, 1, 1>> THEN signs
    ELSE IF side = "R" THEN <<-1, 1, 1>>
    ELSE IF side = "L" THEN <<1, 1, -1>>
    ELSE signs

Elbow_signs(side, signs) ==
    IF side = "R" THEN <<-1, 1, 1>>
    ELSE IF side = "L" THEN <<1, 1, -1>>
    ELSE signs

\* the wrist rule tied to the right side
Wrist_signs_right(side, batter_hand, signs) ==
    IF side = "R" THEN <<-1, -1, 1>> ELSE signs

Wrist_signs(side, batter_hand, signs) ==
    IF side = batter_hand THEN <<-1, -1, 1>> ELSE signs

\* the hip rule tied to the right side
Hip_signs_right(side, signs) == IF side = "R" THEN <<1, 1, -1>> ELSE signs

Hip_signs(side, signs) == IF side = "L" THEN <<1, 1, -1>> ELSE signs

Knee_signs(side, signs) == IF side = "L" THEN <<-1, 1, 1>> ELSE signs

\* the ankle rule tied to the right side
Ankle_signs_right(side, signs) == IF side = "R" THEN <<1, 1, 1>> ELSE signs

Ankle_signs(side, signs) == IF side = "L" THEN <<1, 1, 1>> ELSE signs

\* every class following the batter's hand as Wrist does
SelectedSignsByHand(joint, signs, batter_hand) ==
    IF joint.side = batter_hand THEN <<-1, -1, 1>> ELSE signs

SelectedSigns(joint, signs, batter_hand) ==
    CASE joint.type = "Shoulder" -> Shoulder_signs(joint.side, signs)
      [] joint.type = "Elbow"    -> Elbow_signs(joint.side, signs)
      [] joint.type = "Wrist"    -> Wrist_signs(joint.side, batter_hand, signs)
      [] joint.type = "Hip"      -> Hip_signs(joint.side, signs)
      [] joint.type = "Knee"     -> Knee_signs(joint.side, signs)
      [] joint.type = "Ankle"    -> Ankle_signs(joint.side, signs)

UnwrapLimit == 340

FullTurn == 360

\* no value is changed
UnwrapNever(a) == a

\* the value 340 itself is changed as well
UnwrapFrom340(a) ==
    IF ~a.nan /\ a.v >= 340 THEN Deg(a.v - 360) ELSE a

\* only values below a full turn are changed
UnwrapBelowFullTurn(a) ==
    IF ~a.nan /\ a.v > 340 /\ a.v < 360 THEN Deg(a.v - 360) ELSE a

\* angles[angles[:, 2] > 340, 2] - 360 (a comparison with NaN is false)
Unwrap(a) ==
    IF ~a.nan /\ a.v > UnwrapLimit THEN Deg(a.v - FullTurn) ELSE a

\* the components each angles method overwrites after Joint.angles returned
ElbowCorrected(a) == <<a[1], Deg(0), Unwrap(a[3])>>

WristCorrected(a) == <<a[1], a[2], Deg(0)>>

\* only the second component zeroed
KneeCorrectedOnce(a) == <<a[1], Deg(0), a[3]>>

KneeCorrected(a) == <<a[1], Deg(0), Deg(0)>>

PostCorrected(type, a) ==
    CASE type = "Elbow" -> ElbowCorrected(a)
      [] type = "Wrist" -> WristCorrected(a)
      [] type = "Knee"  -> KneeCorrected(a)
      [] OTHER          -> a

\* joint.angles(ts, signs, adjustments, batter_hand) of the joint's class
angles(joint, series, signs, adjustments, batter_hand, euler) ==
    LET a == Joint_angles(joint, series,
                          SelectedSigns(joint, signs, batter_hand),
                          adjustments, euler)
    IN  [t \in Samples |-> PostCorrected(joint.type, a[t])]

----------------------------------------------------------------------------
(* State machine of one trial *)

NoPart == [name |-> "", origin |-> "", y_direction |-> None,
           yz_direction |-> None, x_direction |-> None, xz_direction |-> None]

NoCall == [part |-> "", origin |-> None, y |-> None, yz |-> None,
           x |-> None, xz |-> None]

NoAngles == [status |-> "none"]

\* no table yet: a table is a function from column names to columns
NoTable == <<>>

\* a trial as read from file: the markers it lacks, the virtual names it
\* supplies itself, its undefined sample and the placement of its markers
\* no sample undefined, or one sample of one marker of the pool
NaNChoices == {{}} \cup {{<<m, t>>} : m \in NaNPool, t \in Samples}

\* a trial as the driver reads it: the points of the file and the metadata
\* parsed from its name
Swing(points, hand) == [points |-> points, batter_hand |-> hand]

InitWith(missingSets, suppliedSeqs, placements, hands) ==
    \E missing \in missingSets :
    \E supplied \in suppliedSeqs :
    \E hand \in hands :
    \E nanAt \in NaNChoices :
    \E placement \in placements :
        /\ Cardinality(missing) <= MaxMissing
        /\ placement # {} => (missing = {} /\ supplied = <<>>)
        /\ input = InputNames(missing, supplied)
        /\ markers = InputSeries(input, nanAt, placement)
        /\ ref = InputSeries(input, {}, placement)
        /\ out = NoAngles
        /\ g = EmptyGraph
        /\ part_names = <<>>
        /\ ts = EmptySeries
        /\ i = 0
        /\ j = 0
        /\ pc = "start"
        /\ err = "none"
        /\ run = 0
        /\ first = EmptySeries
        /\ part = NoPart
        /\ call = NoCall
        /\ metadata = [batter_hand |-> hand]
        /\ nj = 0
        /\ df_joint_angles = NoTable
        /\ dfs = <<>>
        /\ c3d_swings = <<Swing(markers, hand)>>

Init ==
    InitWith(SUBSET MissingPool, InjectiveSeqs(SuppliedPool, MaxSupplied),
             Placements, {"R"})

\* g = generate_marker_graph(list(markers.data.keys()))
GenerateMarkerGraph ==
    /\ pc = "start"
    /\ g' = generate_marker_graph(input)
    /\ pc' = "graph"
    /\ UNCHANGED <<input, markers, part_names, ts, i, j, err, run, first, part,
                   call, ref, out>>
    /\ UNCHANGED tableVars

\* part_names = [...]; entry of add_custom_markers(g, markers, part_names)
SelectPartNames ==
    /\ pc = "graph"
    /\ part_names' = CustomNodes(g)
    /\ ts' = markers
    /\ i' = 1
    /\ run' = 1
    /\ pc' = "synth"
    /\ UNCHANGED <<input, markers, g, j, err, first, part, call, ref, out>>
    /\ UNCHANGED tableVars

\* one iteration of `for part_name in part_names`
AddCustomMarkersStep ==
    /\ pc = "synth"
    /\ i <= Len(part_names)
    /\ LET part_name == part_names[i] IN
        IF PassThrough(ts, part_name) \/ ParentsResolved(g, ts, part_name)
        THEN /\ ts' = AddCustomMarker(g, ts, part_name)
             /\ ref' = AddCustomMarker(g, ref, part_name)
             /\ i' = i + 1
             /\ UNCHANGED <<pc, err>>
        ELSE \* markers.data[parent] raises KeyError; nothing is returned
             /\ pc' = "failed"
             /\ err' = "KeyError"
             /\ UNCHANGED <<ts, i, ref>>
    /\ UNCHANGED <<input, markers, g, part_names, j, run, first, part, call, out>>
    /\ UNCHANGED tableVars

\* `return markers`, assigned to the driver's `markers`
AddCustomMarkersReturn ==
    /\ pc = "synth"
    /\ i > Len(part_names)
    /\ markers' = ts
    /\ pc' = "frames"
    /\ j' = 1
    /\ UNCHANGED <<input, g, part_names, ts, i, err, run, first, part, call,
                   ref, out>>
    /\ UNCHANGED tableVars

\* one iteration of `for part in parts`: the frames of the part are built
\* and written to the trial's time series
CreateAxisFramesStep ==
    /\ pc = "frames"
    /\ j <= Len(parts)
    /\ LET p == parts[j] IN
        IF Referenced(p) \subseteq Keys(markers)
        THEN /\ call' = FrameArgs(p, markers)
             /\ IF create_frames(call').error = "none"
                THEN /\ markers' = add_data(markers, axis_frames_name(p),
                                            create_frames(call').frames)
                     /\ ref' = add_data(ref, axis_frames_name(p),
                                        create_frames(FrameArgs(p, ref)).frames)
                     /\ j' = j + 1
                     /\ UNCHANGED <<pc, err>>
                ELSE /\ pc' = "failed"
                     /\ err' = create_frames(call').error
                     /\ UNCHANGED <<markers, j, ref>>
        ELSE \* ts.data[...] raises KeyError before create_frames is called
             /\ pc' = "failed"
             /\ err' = "KeyError"
             /\ UNCHANGED <<markers, j, call, ref>>
    /\ UNCHANGED <<input, g, part_names, ts, i, run, first, part, out>>
    /\ UNCHANGED tableVars

Next ==
    \/ GenerateMarkerGraph
    \/ SelectPartNames
    \/ AddCustomMarkersStep
    \/ AddCustomMarkersReturn
    \/ CreateAxisFramesStep

Spec == Init /\ [][Next]_vars

----------------------------------------------------------------------------
(* add_custom_markers applied to its own output *)

Resynthesize ==
    /\ pc = "frames"
    /\ j = 1
    /\ run = 1
    /\ first' = markers
    /\ ts' = markers
    /\ i' = 1
    /\ run' = 2
    /\ pc' = "synth"
    /\ UNCHANGED <<input, markers, g, part_names, j, err, part, call, ref, out>>
    /\ UNCHANGED tableVars

NextTwice ==
    \/ GenerateMarkerGraph
    \/ SelectPartNames
    \/ AddCustomMarkersStep
    \/ AddCustomMarkersReturn
    \/ Resynthesize

SpecTwice == Init /\ [][NextTwice]_vars

----------------------------------------------------------------------------
(* A Part configured outside the catalog *)

PartOrigins == {"RSHO", "RTOE"}

DirectionFields == {"y_direction", "yz_direction", "x_direction", "xz_direction"}

\* the dataclass constructor: the fields are stored as given
NewPart ==
    /\ pc = "start"
    /\ \E origin \in PartOrigins, given \in SUBSET DirectionFields :
        part' = Part("custom", origin,
                     IF "y_direction" \in given THEN <<"RSHO", "RELB">> ELSE None,
                     IF "yz_direction" \in given THEN <<"RMELB", "RELB">> ELSE None,
                     IF "x_direction" \in given THEN <<"RTOE", "RHEE">> ELSE None,
                     IF "xz_direction" \in given THEN <<"RANK", "RMANK">> ELSE None)
    /\ pc' = "configured"
    /\ UNCHANGED <<input, markers, g, part_names, ts, i, j, err, run, first, call,
                   ref, out>>
    /\ UNCHANGED tableVars

\* part.create_axis_frames(markers) on the trial's time series
CreateAxisFramesOfPart ==
    /\ pc = "configured"
    /\ IF Referenced(part) \subseteq Keys(markers)
       THEN /\ call' = FrameArgs(part, markers)
            /\ IF create_frames(call').error = "none"
               THEN /\ markers' = add_data(markers, axis_frames_name(part),
                                           create_frames(call').frames)
                    /\ ref' = add_data(ref, axis_frames_name(part),
                                       create_frames(FrameArgs(part, ref)).frames)
                    /\ pc' = "framed"
                    /\ UNCHANGED err
               ELSE /\ pc' = "failed"
                    /\ err' = create_frames(call').error
                    /\ UNCHANGED <<markers, ref>>
       ELSE /\ pc' = "failed"
            /\ err' = "KeyError"
            /\ UNCHANGED <<markers, call, ref>>
    /\ UNCHANGED <<input, g, part_names, ts, i, j, run, first, part, out>>
    /\ UNCHANGED tableVars

NextPart ==
    \/ NewPart
    \/ CreateAxisFramesOfPart

SpecPart == Init /\ [][NextPart]_vars

----------------------------------------------------------------------------
(* joint.angles called once the frames of all Parts are channels *)

\* every catalog joint, and a joint of each class constructed without side
JointInstances ==
    SeqToSet(joints)
    \cup {Joint(joints[k].type, joints[k].proximal, joints[k].distal, Unsided) :
             k \in {1, 3, 5, 7, 9, 11}}

BatterHands == {"R", "L", "S"}

\* None: the argument is left to its declared default
SignArgs == {None, <<-1, -1, -1>>}

AdjustmentArgs == {None, <<5, 7, 400>>}

\* Euler decompositions (degrees) a relative pose may have
Decomposed ==
    << <<10, 20, 175>>, <<-30, 5, 159>>, <<45, -10, 160>>, <<0, 0, 180>>,
       <<90, 30, 355>>, <<-90, 15, 339>>, <<20, 40, -100>>, <<-179, 60, -175>>,
       <<5, -5, 161>>, <<-45, 10, -180>> >>

\* the decomposition of each sample: consecutive entries, starting at e
Euler(e) ==
    [t \in Samples |->
        LET d == Decomposed[((e + t - 2) % Len(Decomposed)) + 1]
        IN  <<Deg(d[1]), Deg(d[2]), Deg(d[3])>>]

InitJoint == InitWith({{}}, {<<>>}, {{}}, {"R"})

\* the channels Joint.transforms reads
FrameChannels(joint) ==
    {axis_frames_name(joint.distal), axis_frames_name(joint.proximal)}

\* one call joint.angles(series, signs, adjustments, batter_hand) on a time
\* series that holds both frame channels, with the values on the way;
\* refseries is the time series of the trial without undefined samples,
\* by_hand what the same call returns for each batter_hand
AnglesCall(joint, series, refseries, signsArg, adjustmentsArg, batter_hand, euler) ==
    LET signs == IF signsArg = None THEN DeclaredSigns(joint.type)
                 ELSE signsArg
        adjustments == IF adjustmentsArg = None
                       THEN DeclaredAdjustments(joint.type)
                       ELSE adjustmentsArg
    IN  [status      |-> "returned",
         joint       |-> joint,
         batter_hand |-> batter_hand,
         passed      |-> <<signsArg # None, adjustmentsArg # None>>,
         given       |-> signs,
         signs       |-> SelectedSigns(joint, signs, batter_hand),
         adjustments |-> adjustments,
         euler       |-> euler,
         decomposed  |-> get_angles(transforms(joint, series), euler),
         scaled      |-> Joint_angles(joint, series,
                             SelectedSigns(joint, signs, batter_hand),
                             adjustments, euler),
         angles      |-> angles(joint, series, signs, adjustments,
                                batter_hand, euler),
         refangles   |-> angles(joint, refseries, signs, adjustments,
                                batter_hand, euler),
         by_hand     |-> [hand \in BatterHands |->
                             angles(joint, series, signs, adjustments,
                                    hand, euler)]]

\* ts.data[...] of a frame channel that is no channel raises KeyError
AnglesKeyError(joint) == [status |-> "KeyError", joint |-> joint]

\* joint.angles called on the trial's time series, after the loop over the
\* Parts or while a frame channel of the joint is still missing
JointAngles ==
    /\ pc = "frames"
    /\ \E joint \in JointInstances :
          /\ j <= Len(parts) => ~(FrameChannels(joint) \subseteq Keys(markers))
          /\ IF FrameChannels(joint) \subseteq Keys(markers)
             THEN /\ \E batter_hand \in BatterHands :
                     \E signsArg \in SignArgs :
                     \E adjustmentsArg \in AdjustmentArgs :
                     \E e \in DOMAIN Decomposed :
                        out' = AnglesCall(joint, markers, ref, signsArg,
                                          adjustmentsArg, batter_hand, Euler(e))
                  /\ pc' = "joints"
                  /\ UNCHANGED err
             ELSE /\ out' = AnglesKeyError(joint)
                  /\ pc' = "failed"
                  /\ err' = "KeyError"
    /\ UNCHANGED <<input, markers, g, part_names, ts, i, j, run, first,
                   part, call, ref>>
    /\ UNCHANGED tableVars

NextJoint ==
    \/ GenerateMarkerGraph
    \/ SelectPartNames
    \/ AddCustomMarkersStep
    \/ AddCustomMarkersReturn
    \/ CreateAxisFramesStep
    \/ JointAngles

SpecJoint == InitJoint /\ [][NextJoint]_vars

----------------------------------------------------------------------------
(* The batch driver: the table of joint angles of every trial *)

\* trials processed in one run of the driver
MaxTrials == 3

\* the batter-hand default declared by every angles method
DefaultBatterHand == "R"

\* joint.__class__.__name__.lower()
Lower(type) ==
    CASE type = "Shoulder" -> "shoulder"
      [] type = "Elbow"    -> "elbow"
      [] type = "Wrist"    -> "wrist"
      [] type = "Hip"      -> "hip"
      [] type = "Knee"     -> "knee"
      [] type = "Ankle"    -> "ankle"

AngleVars == <<"x", "y", "z">>

\* the name of the column a joint's component is written to
ColumnName(joint, hand, var) ==
    IF joint.side = Unsided
    THEN Lower(joint.type) \o "_angle_" \o var
    ELSE IF hand = joint.side
         THEN "rear_" \o Lower(joint.type) \o "_angle_" \o var
         ELSE "lead_" \o Lower(joint.type) \o "_angle_" \o var

\* pd.DataFrame([(session_swing, t) for t in markers.time], columns=[...])
DataFrame(session_swing) ==
    [c \in {"session_swing", "time"} |->
        [t \in Samples |-> IF c = "time" THEN t ELSE session_swing]]

\* df[name] = values
SetColumn(df, name, values) ==
    [c \in DOMAIN df \cup {name} |-> IF c = name THEN values ELSE df[c]]

\* angles[:, i]
AngleColumn(a, c) == [t \in Samples |-> a[t][c + 1]]

\* the three assignments of one joint, x then y then z
SetJointColumns(df, joint, hand, a) ==
    SetColumn(SetColumn(SetColumn(df,
        ColumnName(joint, hand, AngleVars[1]), AngleColumn(a, 0)),
        ColumnName(joint, hand, AngleVars[2]), AngleColumn(a, 1)),
        ColumnName(joint, hand, AngleVars[3]), AngleColumn(a, 2))

\* the call the driver makes: joint.angles(markers), every other argument
\* left to its default
DriverCall(joint, series, refseries, euler) ==
    AnglesCall(joint, series, refseries, None, None, DefaultBatterHand, euler)

\* every appended table held by the one object
DfsAppendShared(tables, df) == [a \in 1..(Len(tables) + 1) |-> df]

\* dfs.append(df_joint_angles)
DfsAppend(tables, df) == Append(tables, df)

\* the files a session may hold after those read: the second is any file
\* of the same marker set, the later ones hold what an earlier one held
NextSwings(read) ==
    IF Len(read) = 1
    THEN {Swing(InputSeries(input, nanAt, {}), hand) :
              nanAt \in {{}, {<<"RSHO", 1>>}}, hand \in BatterHands}
    ELSE SeqToSet(read)

InitBatch == InitWith(SUBSET MissingPool, {<<>>}, {{}}, BatterHands)

\* df_joint_angles = pd.DataFrame(...), once every part's frames are written
CreateTable ==
    /\ pc = "frames"
    /\ j > Len(parts)
    /\ df_joint_angles' = DataFrame(Len(c3d_swings))
    /\ nj' = 1
    /\ pc' = "table"
    /\ UNCHANGED <<input, markers, g, part_names, ts, i, j, err, run, first,
                   part, call, ref, out, metadata, dfs, c3d_swings>>

\* one iteration of `for joint in joints`: the angles of the joint and its
\* three columns
JointColumns ==
    /\ pc = "table"
    /\ nj <= Len(joints)
    /\ LET joint == joints[nj] IN
        IF FrameChannels(joint) \subseteq Keys(markers)
        THEN /\ out' = DriverCall(joint, markers, ref, Euler(nj))
             /\ df_joint_angles' = SetJointColumns(df_joint_angles, joint,
                                        metadata.batter_hand, out'.angles)
             /\ nj' = nj + 1
             /\ UNCHANGED <<pc, err>>
        ELSE /\ out' = AnglesKeyError(joint)
             /\ pc' = "failed"
             /\ err' = "KeyError"
             /\ UNCHANGED <<df_joint_angles, nj>>
    /\ UNCHANGED <<input, markers, g, part_names, ts, i, j, run, first, part,
                   call, ref, metadata, dfs, c3d_swings>>

\* dfs.append(df_joint_angles)
AppendTable ==
    /\ pc = "table"
    /\ nj > Len(joints)
    /\ dfs' = DfsAppend(dfs, df_joint_angles)
    /\ pc' = "appended"
    /\ UNCHANGED <<input, markers, g, part_names, ts, i, j, err, run, first,
                   part, call, ref, out, metadata, nj, df_joint_angles,
                   c3d_swings>>

\* the next iteration of `for session_swing, c3d_file_path, metadata in
\* c3d_swings`: the metadata is unpacked and the file's points are read; the
\* names bound later in the loop body keep what the last trial left in them
ReadSwing ==
    /\ pc = "appended"
    /\ Len(c3d_swings) < MaxTrials
    /\ \E swing \in NextSwings(c3d_swings) :
          /\ metadata' = [batter_hand |-> swing.batter_hand]
          /\ markers' = swing.points
          /\ c3d_swings' = Append(c3d_swings, swing)
    /\ ref' = InputSeries(input, {}, {})
    /\ pc' = "start"
    /\ UNCHANGED <<input, g, part_names, ts, i, j, err, run, first, part,
                   call, out, nj, df_joint_angles, dfs>>

NextBatch ==
    \/ GenerateMarkerGraph
    \/ SelectPartNames
    \/ AddCustomMarkersStep
    \/ AddCustomMarkersReturn
    \/ CreateAxisFramesStep
    \/ CreateTable
    \/ JointColumns
    \/ AppendTable
    \/ ReadSwing

SpecBatch == InitBatch /\ [][NextBatch]_vars

----------------------------------------------------------------------------
(* Properties *)

InputSet == SeqToSet(input)

PosIn(seq, x) == CHOOSE k \in DOMAIN seq : seq[k] = x

GraphBuilt == pc # "start"

\* a derived node whose value add_custom_markers computed
Computed(series, n) == n \in g.is_custom /\ n \in Keys(series) /\ n \notin InputSet

\* C1: every derived node that is not a channel of the input holds, at each
\* sample, the arithmetic mean of its direct predecessors' values at that
\* same sample (count * value = sum, coordinate by coordinate; undefined as
\* soon as one predecessor is undefined there).
C1_MeanOfPredecessors ==
    \A n \in g.is_custom :
        Computed(ts, n) =>
            LET parents == predecessors(g, n) IN
            \A t \in Samples :
                LET ps == [k \in 1..Len(parents) |-> ts[parents[k]][t]] IN
                /\ ts[n][t].nan = (\E k \in DOMAIN ps : ps[k].nan)
                /\ ~ts[n][t].nan =>
                      \A c \in 1..3 : Len(ps) * ts[n][t].v[c] = SumCoord(ps, c)

\* pelvis_m computed from the computed hip centres, with samples that differ
C1_Witness ==
    /\ Computed(ts, "pelvis_m")
    /\ Computed(ts, "hip_r")
    /\ Computed(ts, "hip_l")
    /\ ~ts["pelvis_m"][1].nan
    /\ ts["pelvis_m"][1] # ts["pelvis_m"][2]
    /\ ts["pelvis_m"][1] # ts["hip_r"][1]

\* C2: while add_custom_markers runs, every channel of the series it was
\* given (a virtual name supplied in the input included) keeps its values,
\* and a second run on the first run's output returns that output unchanged.
C2_PassThroughIdempotent ==
    /\ pc = "synth" =>
          \A k \in Keys(markers) : k \in Keys(ts) /\ ts[k] = markers[k]
    /\ (run = 2 /\ pc = "frames") => markers = first

\* the second run has returned, on a trial whose input supplied torso_m
C2_Witness ==
    /\ run = 2
    /\ pc = "frames"
    /\ "torso_m" \in InputSet
    /\ Computed(markers, "scapula_r")

\* C3 as claimed: the processing order of the derived nodes is a topological
\* order of the marker graph.
C3_Claimed_TopologicalOrder ==
    pc = "synth" =>
        \A k \in DOMAIN g.edges :
            LET u == g.edges[k][1]
                v == g.edges[k][2]
            IN  (u \in g.is_custom /\ v \in g.is_custom) =>
                    PosIn(part_names, u) < PosIn(part_names, v)

\* C3 amended: a derived node that has to be computed is processed only
\* after each of its derived predecessors that has to be computed; a derived
\* predecessor supplied in the input is a channel from the start.
C3_ComputedAfterComputedParents ==
    pc = "synth" =>
        \A k \in DOMAIN g.edges :
            LET u == g.edges[k][1]
                v == g.edges[k][2]
            IN  (u \in g.is_custom /\ v \in g.is_custom) =>
                    /\ (u \notin InputSet /\ v \notin InputSet) =>
                           PosIn(part_names, u) < PosIn(part_names, v)
                    /\ (u \in InputSet) => u \in Keys(ts)

\* the loop has passed pelvis_m, computed from two computed hip centres
C3_Witness ==
    /\ pc = "synth"
    /\ InputSet \cap g.is_custom = {}
    /\ i > PosIn(part_names, "pelvis_m")
    /\ Computed(ts, "pelvis_m")

\* the iteration at hand has to compute a node one of whose direct
\* predecessors is no channel
MissingParentAtHand ==
    /\ pc = "synth"
    /\ i <= Len(part_names)
    /\ part_names[i] \notin Keys(ts)
    /\ \E k \in DOMAIN predecessors(g, part_names[i]) :
           predecessors(g, part_names[i])[k] \notin Keys(ts)

EdgeEnds == {g.edges[k][1] : k \in DOMAIN g.edges} \cup {g.edges[k][2] : k \in DOMAIN g.edges}

\* C5 as claimed: the nodes are exactly the given names and the 19 virtual
\* names.
C5_Claimed_NodesAreInputAndVirtual ==
    GraphBuilt => SeqToSet(g.nodes) = InputSet \cup SeqToSet(VirtualNames)

\* C5 amended: the nodes are exactly the given names, the 19 virtual names
\* and the end points of the edge table, each once.
C5_NodesIncludeEdgeEnds ==
    GraphBuilt =>
        /\ SeqToSet(g.nodes) = InputSet \cup SeqToSet(VirtualNames) \cup EdgeEnds
        /\ Cardinality(SeqToSet(g.nodes)) = Len(g.nodes)
        /\ Cardinality(SeqToSet(VirtualNames)) = 19

\* RSHO is no input channel and yet a node of the graph
C5_Witness ==
    /\ GraphBuilt
    /\ "RSHO" \notin InputSet
    /\ "RSHO" \in SeqToSet(g.nodes)

EdgeSet(gr) == {gr.edges[k] : k \in DOMAIN gr.edges}

Compose(R, S) ==
    UNION { {<<a[1], b[2]>> : b \in {d \in S : d[1] = a[2]}} : a \in R }

RECURSIVE TransitiveClosure(_)
TransitiveClosure(R) ==
    LET step == Compose(R, R)
    IN  IF step \subseteq R THEN R ELSE TransitiveClosure(R \cup step)

\* C6: the marker graph is acyclic (no node reaches itself along edges) and
\* every is_custom node has at least one predecessor.
C6_AcyclicWithPredecessors ==
    pc = "graph" =>
        /\ LET reach == TransitiveClosure(EdgeSet(g))
           IN  \A n \in SeqToSet(g.nodes) : <<n, n>> \notin reach
        /\ \A n \in g.is_custom :
              n \in SeqToSet(g.nodes) /\ Len(predecessors(g, n)) >= 1

\* the graph of a trial that supplies pelvis_m itself: a two-edge path ends
\* in scapula_r
C6_Witness ==
    /\ pc = "graph"
    /\ "pelvis_m" \in InputSet
    /\ <<"LSHO", "scapula_r">> \in Compose(EdgeSet(g), EdgeSet(g))

JointCentres ==
    {"elbow_r", "elbow_l", "wrist_r", "wrist_l", "hip_r", "hip_l",
     "knee_r", "knee_l", "ankle_r", "ankle_l"}

\* C7 as claimed: every joint-centre marker has exactly two direct
\* predecessors, and wrist_l is derived from LWRA and LWRB as wrist_r is
\* from RWRA and RWRB.
C7_Claimed_PairedJointCentres ==
    GraphBuilt =>
        /\ \A n \in JointCentres : Len(predecessors(g, n)) = 2
        /\ SeqToSet(predecessors(g, "wrist_r")) = {"RWRA", "RWRB"}
        /\ SeqToSet(predecessors(g, "wrist_l")) = {"LWRA", "LWRB"}

\* exactly one primary direction, with the auxiliary direction of its plane
AxisInvariant(p) ==
    /\ IsSet(p.y_direction) # IsSet(p.x_direction)
    /\ IsSet(p.yz_direction) # IsSet(p.xz_direction)
    /\ IsSet(p.y_direction) = IsSet(p.yz_direction)

\* C8: every Part of the catalog has exactly one primary direction and
\* exactly one auxiliary direction, the one that matches the primary; the
\* create_frames keywords of every catalog call are set accordingly.
C8_CatalogAxisInvariant ==
    \A k \in DOMAIN parts :
        /\ AxisInvariant(parts[k])
        /\ call.part = parts[k].name =>
              /\ (call.y # None) # (call.x # None)
              /\ (call.yz # None) # (call.xz # None)
              /\ (call.y # None) = (call.yz # None)

\* the frames of foot_r, the catalog's first x-primary Part, were built
C8_Witness ==
    /\ pc = "frames"
    /\ call.part = "foot_r"
    /\ call.x # None
    /\ call.y = None
    /\ "foot_r_frames" \in Keys(markers)
    /\ "scapula_r_frames" \in Keys(markers)

\* C9 as claimed: a Part that violates the axis invariant is rejected with a
\* ConfigurationError when it is configured, and never yields a frame.
C9_Claimed_InvalidPartRejected ==
    (part # NoPart /\ ~AxisInvariant(part)) =>
        /\ pc = "failed"
        /\ err = "ConfigurationError"
        /\ axis_frames_name(part) \notin Keys(markers)

\* the direction series of the Part whose frames were built last
DirectionsOf(p) ==
    << <<p.y_direction, call.y>>, <<p.yz_direction, call.yz>>,
       <<p.x_direction, call.x>>, <<p.xz_direction, call.xz>> >>

\* for every directive (a, b) of the Part built last, at every sample where
\* both markers are defined, the vector handed on is Minuend minus Subtrahend
DirectionIs(minuend, subtrahend) ==
    \A k \in DOMAIN parts :
        call.part = parts[k].name =>
            \A d \in DOMAIN DirectionsOf(parts[k]) :
                LET pair == DirectionsOf(parts[k])[d][1]
                    used == DirectionsOf(parts[k])[d][2]
                IN  IsSet(pair) =>
                      \A t \in Samples :
                        LET m == markers[pair[minuend]][t]
                            s == markers[pair[subtrahend]][t]
                        IN  /\ used[t].nan = (m.nan \/ s.nan)
                            /\ ~used[t].nan =>
                                  \A c \in 1..3 : used[t].v[c] = m.v[c] - s.v[c]

\* C10 as claimed: the direction vector of the pair (marker_a, marker_b) is
\* position(marker_b) - position(marker_a).
C10_Claimed_SecondMinusFirst == DirectionIs(2, 1)

\* C10 amended: the direction vector of the pair (marker_a, marker_b) is
\* position(marker_a) - position(marker_b), first minus second.
C10_FirstMinusSecond == DirectionIs(1, 2)

\* the frames of upper_arm_r were built from defined, distinct positions
C10_Witness ==
    /\ call.part = "upper_arm_r"
    /\ ~call.y[1].nan
    /\ call.y[1].v # <<0, 0, 0>>
    /\ markers["RSHO"][1] # markers["elbow_r"][1]

----------------------------------------------------------------------------
(* Frames: orthonormality and undefined samples *)

Dot(p, q) == p.v[1] * q.v[1] + p.v[2] * q.v[2] + p.v[3] * q.v[3]

Zero3 == <<0, 0, 0>>

\* the catalog Parts whose frames channel is written
Framed(series) == {k \in DOMAIN parts : axis_frames_name(parts[k]) \in Keys(series)}

PrimaryPair(p) == IF IsSet(p.x_direction) THEN p.x_direction ELSE p.y_direction

AuxiliaryPair(p) == IF IsSet(p.x_direction) THEN p.xz_direction ELSE p.yz_direction

\* marker positions at sample t: first marker of the pair minus the second
Between(pair, series, t) == VSub(series[pair[1]][t], series[pair[2]][t])

AllDefined(p, series, t) == \A m \in Referenced(p) : ~series[m][t].nan

\* the primary direction has no length, or the auxiliary direction lies
\* along it (markers coincide or lie on one line)
Degenerate(p, series, t) ==
    \/ Between(PrimaryPair(p), series, t).v = Zero3
    \/ Cross(Between(PrimaryPair(p), series, t),
             Between(AuxiliaryPair(p), series, t)).v = Zero3

\* three defined, nonzero axes, x orthogonal to y, z = x cross y.  The two
\* normalised axes have length one by normalisation; z, their cross
\* product, is orthogonal to both and has length one exactly when they are
\* orthogonal.
RightHandedOrthonormal(f) ==
    /\ ~f.x.nan /\ ~f.y.nan /\ ~f.z.nan
    /\ f.x.v # Zero3 /\ f.y.v # Zero3 /\ f.z.v # Zero3
    /\ Dot(f.x, f.y) = 0
    /\ f.z = Cross(f.x, f.y)

Columns == {"x", "y", "z", "o"}

\* some marker the Part refers to is undefined at sample t
SomeUndefined(p, series, t) == \E m \in Referenced(p) : series[m][t].nan

PairUndefined(pair, series, t) == series[pair[1]][t].nan \/ series[pair[2]][t].nan

\* wherever no marker of the Part is undefined the pose is the pose of the
\* trial without undefined samples
SameWhereDefined ==
    \A k \in Framed(markers) : \A t \in Samples :
        ~SomeUndefined(parts[k], markers, t) =>
            markers[axis_frames_name(parts[k])][t] = ref[axis_frames_name(parts[k])][t]

----------------------------------------------------------------------------
(* Joint angles *)

Returned == out.status = "returned"

\* component c of the angles of one sample, counted from 0 as in the source
Component(a, c) == a[c + 1]

\* marker m is undefined at sample t and nothing else of the input is
OnlyUndefined(m, t) ==
    /\ m \in InputSet
    /\ \A n \in InputSet : \A u \in Samples :
          markers[n][u].nan = (n = m /\ u = t)

\* the returned angles at sample t are not those of the trial without
\* undefined samples
Affected(t) == out.angles[t] # out.refangles[t]

IsJoint(type, side) == out.joint.type = type /\ out.joint.side = side

CatalogJoint == out.joint \in SeqToSet(joints)

\* with RSHO undefined at sample t only, the catalog joint called is
\* affected at t exactly if it is one of `these`, and at no other sample
AffectedByRSHO(these) ==
    \A t \in Samples :
        (Returned /\ CatalogJoint /\ OnlyUndefined("RSHO", t)) =>
            \A u \in Samples :
                Affected(u) <=> (u = t /\ <<out.joint.type, out.joint.side>> \in these)

\* C13 as claimed: with RSHO undefined at exactly one sample t, the only
\* joints whose output at t is affected are Shoulder-right and Elbow-right;
\* every other joint is unaffected at every sample and every joint is
\* unaffected at the other samples.
C13_Claimed_RightShoulderElbowOnly ==
    AffectedByRSHO({<<"Shoulder", "R">>, <<"Elbow", "R">>})

\* C13 amended: with RSHO undefined at exactly one sample t, the joints
\* whose output at t is affected are Shoulder-right, Shoulder-left and
\* Elbow-right; every other joint is unaffected at every sample and every
\* joint is unaffected at the other samples.
C13_BothShouldersRightElbow ==
    AffectedByRSHO({<<"Shoulder", "R">>, <<"Shoulder", "L">>, <<"Elbow", "R">>})

\* RSHO is undefined at sample 1 only and the left shoulder's angles are
\* undefined at sample 1, defined and unaffected at sample 2
C13_Witness ==
    /\ Returned
    /\ OnlyUndefined("RSHO", 1)
    /\ IsJoint("Shoulder", "L")
    /\ Affected(1)
    /\ Component(out.angles[1], 0).nan
    /\ ~Affected(2)
    /\ ~Component(out.angles[2], 0).nan

\* the proximal or the distal pose of the joint called is undefined at t
PoseUndefinedAt(t) ==
    \/ ~PoseDefined(markers[axis_frames_name(out.joint.proximal)][t])
    \/ ~PoseDefined(markers[axis_frames_name(out.joint.distal)][t])

\* the components a joint class constrains to zero
Constrained(type) ==
    CASE type = "Elbow" -> {1}
      [] type = "Wrist" -> {2}
      [] type = "Knee"  -> {1, 2}
      [] OTHER          -> {}

\* C14 as claimed: for every joint class, if the proximal or distal pose is
\* undefined at sample t, all three components of the returned angles at t
\* are NaN, for Elbow, Wrist and Knee too.
C14_Claimed_AllComponentsNaN ==
    Returned =>
        \A t \in Samples : PoseUndefinedAt(t) =>
            \A c \in 0..2 : Component(out.angles[t], c).nan

\* C14 amended: if the proximal or distal pose is undefined at sample t,
\* every component of the returned angles at t that the joint class does
\* not constrain is NaN; the constrained components (Elbow 1, Wrist 2,
\* Knee 1 and 2) are 0 at t as at every sample.
C14_NaNExceptConstrained ==
    Returned =>
        \A t \in Samples : PoseUndefinedAt(t) =>
            \A c \in 0..2 :
                IF c \in Constrained(out.joint.type)
                THEN Component(out.angles[t], c) = Deg(0)
                ELSE Component(out.angles[t], c).nan

\* the right elbow at a sample where upper_arm_r has no pose
C14_Witness ==
    /\ Returned
    /\ IsJoint("Elbow", "R")
    /\ PoseUndefinedAt(1)
    /\ out.angles[1] = <<NaN1, Deg(0), NaN1>>
    /\ ~PoseUndefinedAt(2)

\* C15: whatever the poses, the side, batter_hand and the signs and
\* adjustments passed, Elbow returns exactly 0 in component 1, Knee in
\* components 1 and 2 and Wrist in component 2, at every sample.
C15_ConstrainedComponentsZero ==
    Returned =>
        \A t \in Samples :
            /\ out.joint.type = "Elbow" => Component(out.angles[t], 1) = Deg(0)
            /\ out.joint.type = "Knee" =>
                  /\ Component(out.angles[t], 1) = Deg(0)
                  /\ Component(out.angles[t], 2) = Deg(0)
            /\ out.joint.type = "Wrist" => Component(out.angles[t], 2) = Deg(0)

\* a knee called with signs and adjustments of the caller: what Joint.angles
\* returned is not zero in components 1 and 2, what Knee.angles returns is
C15_Witness ==
    /\ Returned
    /\ out.joint.type = "Knee"
    /\ out.passed = <<TRUE, TRUE>>
    /\ ~Component(out.scaled[1], 1).nan /\ Component(out.scaled[1], 1).v # 0
    /\ ~Component(out.scaled[1], 2).nan /\ Component(out.scaled[1], 2).v # 0
    /\ Component(out.angles[1], 1) = Deg(0)
    /\ Component(out.angles[1], 2) = Deg(0)

\* an elbow called with the declared signs and adjustments
ElbowWithDefaults ==
    Returned /\ out.joint.type = "Elbow" /\ out.passed = <<FALSE, FALSE>>

UnwrappedAbove340(belowFullTurnOnly) ==
    (Returned /\ out.joint.type = "Elbow") =>
        \A t \in Samples :
            LET v == Component(out.scaled[t], 2)
                r == Component(out.angles[t], 2)
            IN  /\ Component(out.angles[t], 0) = Component(out.scaled[t], 0)
                /\ v.nan => r.nan
                /\ ~v.nan =>
                      IF v.v > 340 /\ (belowFullTurnOnly => v.v < 360)
                      THEN r = Deg(v.v - 360)
                      ELSE r = v

\* C17 as claimed: the unwrap changes a component-2 value v only when
\* 340 < v < 360, to v - 360; a value of 340 or less and a value of 360 or
\* more are left unchanged, and component 0 is never changed.
C17_Claimed_UnwrapBelowFullTurn == UnwrappedAbove340(TRUE)

\* C17 amended: the unwrap changes a component-2 value v whenever v > 340,
\* to v - 360, values of 360 or more included (360 becomes 0, 535 becomes
\* 175); a value of 340 or less and NaN are left unchanged, and component 0
\* is never changed.
C17_UnwrapAbove340 == UnwrappedAbove340(FALSE)

\* the right elbow with its defaults: 340 after the adjustment is returned
\* as 340, 360 is returned as 0
C17_Witness ==
    /\ ElbowWithDefaults
    /\ out.joint.side = "R"
    /\ Component(out.scaled[1], 2) = Deg(340)
    /\ Component(out.angles[1], 2) = Deg(340)
    /\ Component(out.scaled[2], 2) = Deg(360)
    /\ Component(out.angles[2], 2) = Deg(0)

\* C18: every component handed back by Joint.angles is
\* decomposed * sign + adjustment with the signs selected and the
\* adjustments in force (sign first, then offset); the post-corrections act
\* on that result only, and for Shoulder, Hip and Ankle it is returned as is.
C18_SignThenAdjustment ==
    Returned =>
        \A t \in Samples : \A c \in 0..2 :
            LET d == Component(out.decomposed[t], c)
                expected == IF d.nan THEN NaN1
                            ELSE Deg((d.v * out.signs[c + 1]) + out.adjustments[c + 1])
            IN  /\ Component(out.scaled[t], c) = expected
                /\ out.joint.type \in {"Shoulder", "Hip", "Ankle"} =>
                      Component(out.angles[t], c) = expected
                /\ (/\ c \notin Constrained(out.joint.type)
                    /\ <<out.joint.type, c>> # <<"Elbow", 2>>) =>
                      Component(out.angles[t], c) = expected

\* the right shoulder with adjustments (5, 7, 400) of the caller and the
\* decomposition (10, 20, 175): signs (-1, 1, -1) give (-5, 27, 225)
C18_Witness ==
    /\ Returned
    /\ IsJoint("Shoulder", "R")
    /\ out.adjustments = <<5, 7, 400>>
    /\ out.decomposed[1] = <<Deg(10), Deg(20), Deg(175)>>
    /\ out.angles[1] = <<Deg(-5), Deg(27), Deg(225)>>

\* C19 as claimed: for Shoulder, Elbow and Ankle the signs deviate from the
\* declared default only when side is "R"; a left or unsided Shoulder,
\* Elbow or Ankle uses (1, 1, 1), (1, 1, 1) and (1, 1, -1).
C19_Claimed_DeviateOnlyOnRight ==
    (Returned /\ ~out.passed[1] /\ out.joint.side # "R") =>
        /\ out.joint.type = "Shoulder" => out.signs = <<1, 1, 1>>
        /\ out.joint.type = "Elbow" => out.signs = <<1, 1, 1>>
        /\ out.joint.type = "Ankle" => out.signs = <<1, 1, -1>>

\* C19 amended: Shoulder uses (-1, 1, -1) on the right side and the signs
\* given (declared default (1, 1, 1)) otherwise; Elbow uses (-1, 1, 1) on
\* the right side, (1, 1, -1) on the left side and the signs given
\* (default (1, 1, 1)) only when unsided; Ankle uses (1, 1, 1) on the left
\* side and the signs given (default (1, 1, -1)) on the right side and when
\* unsided.
C19_FixedSideSigns ==
    Returned =>
        LET side == out.joint.side
            given == IF out.passed[1] THEN out.given
                     ELSE CASE out.joint.type = "Ankle" -> <<1, 1, -1>>
                            [] OTHER -> <<1, 1, 1>>
        IN  /\ out.joint.type = "Shoulder" =>
                  out.signs = IF side = "R" THEN <<-1, 1, -1>> ELSE given
            /\ out.joint.type = "Elbow" =>
                  out.signs = IF side = "R" THEN <<-1, 1, 1>>
                              ELSE IF side = "L" THEN <<1, 1, -1>>
                              ELSE given
            /\ out.joint.type = "Ankle" =>
                  out.signs = IF side = "L" THEN <<1, 1, 1>> ELSE given

\* the left ankle with its defaults: signs (1, 1, 1), so the decomposition
\* (10, 20, 175) is returned as (100, 20, 175)
C19_Witness ==
    /\ Returned
    /\ IsJoint("Ankle", "L")
    /\ out.passed = <<FALSE, FALSE>>
    /\ out.signs = <<1, 1, 1>>
    /\ out.decomposed[1] = <<Deg(10), Deg(20), Deg(175)>>
    /\ out.angles[1] = <<Deg(100), Deg(20), Deg(175)>>

\* the catalog wrists whose component 0 is negated for a batter's hand
NegatedWrists(batter_hand) ==
    {k \in DOMAIN joints :
        /\ joints[k].type = "Wrist"
        /\ SelectedSigns(joints[k], <<1, -1, 1>>, batter_hand)[1] = -1}

\* C20: Wrist uses (-1, -1, 1) exactly when its side equals batter_hand and
\* the signs given (declared default (1, -1, 1)) otherwise, so component 0
\* is negated for exactly one of the two catalog wrists, the one on the
\* batter's side, whichever hand (R or L) the batter uses.
C20_WristFollowsBatterHand ==
    /\ (Returned /\ out.joint.type = "Wrist") =>
          LET same == out.joint.side = out.batter_hand
              given == IF out.passed[1] THEN out.given ELSE <<1, -1, 1>>
          IN  /\ out.signs = IF same THEN <<-1, -1, 1>> ELSE given
              /\ \A t \in Samples :
                    LET d == Component(out.decomposed[t], 0) IN
                    ~d.nan =>
                        Component(out.angles[t], 0) =
                            Deg((d.v * (IF same THEN -1 ELSE given[1]))
                                + out.adjustments[1])
    /\ \A hand \in {"R", "L"} :
          /\ Cardinality(NegatedWrists(hand)) = 1
          /\ \A k \in NegatedWrists(hand) : joints[k].side = hand

\* the left wrist of a left-handed batter with its defaults: signs
\* (-1, -1, 1), so the decomposition (10, 20, 175) is returned as (-10, -20, 0)
C20_Witness ==
    /\ Returned
    /\ IsJoint("Wrist", "L")
    /\ out.batter_hand = "L"
    /\ out.passed = <<FALSE, FALSE>>
    /\ out.signs = <<-1, -1, 1>>
    /\ out.decomposed[1] = <<Deg(10), Deg(20), Deg(175)>>
    /\ out.angles[1] = <<Deg(-10), Deg(-20), Deg(0)>>

\* C21: Hip uses (1, 1, -1) when side is "L" and the signs given (declared
\* default (-1, 1, 1)) otherwise; Knee uses (-1, 1, 1) when side is "L" and
\* the signs given (declared default (1, 1, 1)) otherwise; whatever
\* batter_hand is.
C21_HipKneeSigns ==
    Returned =>
        LET left == out.joint.side = "L" IN
        /\ out.joint.type = "Hip" =>
              /\ out.signs = IF left THEN <<1, 1, -1>>
                             ELSE IF out.passed[1] THEN out.given
                             ELSE <<-1, 1, 1>>
              /\ \A hand \in BatterHands :
                    SelectedSigns(out.joint, out.given, hand) = out.signs
        /\ out.joint.type = "Knee" =>
              /\ out.signs = IF left THEN <<-1, 1, 1>>
                             ELSE IF out.passed[1] THEN out.given
                             ELSE <<1, 1, 1>>
              /\ \A hand \in BatterHands :
                    SelectedSigns(out.joint, out.given, hand) = out.signs

\* the left hip of a left-handed batter with its defaults: signs (1, 1, -1),
\* so the decomposition (10, 20, 175) is returned as (10, 20, -175)
C21_Witness ==
    /\ Returned
    /\ IsJoint("Hip", "L")
    /\ out.batter_hand = "L"
    /\ out.passed = <<FALSE, FALSE>>
    /\ out.signs = <<1, 1, -1>>
    /\ out.decomposed[1] = <<Deg(10), Deg(20), Deg(175)>>
    /\ out.angles[1] = <<Deg(10), Deg(20), Deg(-175)>>

\* C22 as claimed: when a frame channel of the joint's proximal or distal
\* Part has not been written to the time series, angles builds that pose
\* itself and returns the angles instead of failing.
C22_Claimed_BuildsMissingPose ==
    (out.status # "none" /\ ~(FrameChannels(out.joint) \subseteq Keys(markers))) =>
        /\ out.status = "returned"
        /\ pc # "failed"

\* C27: for Shoulder, Elbow, Hip, Knee and Ankle two calls of angles on the
\* same time series that differ in batter_hand only return the same
\* angles; for a sided Wrist with declared signs they differ (in component
\* 0, where it is defined and not zero) exactly between the batter's hand
\* being the wrist's side and not.
C27_BatterHandOnlyWrist ==
    Returned =>
        /\ out.by_hand[out.batter_hand] = out.angles
        /\ out.joint.type # "Wrist" =>
              \A hand \in BatterHands : out.by_hand[hand] = out.angles
        /\ (out.joint.type = "Wrist" /\ ~out.passed[1]) =>
              \A h1, h2 \in BatterHands : \A t \in Samples :
                  LET d == Component(out.decomposed[t], 0) IN
                  (~d.nan /\ d.v # 0) =>
                      ((out.by_hand[h1][t] = out.by_hand[h2][t])
                          <=> ((h1 = out.joint.side) = (h2 = out.joint.side)))

\* the left shoulder called for a left-handed batter returns defined
\* angles, the same as for a right-handed batter
C27_Witness ==
    /\ Returned
    /\ IsJoint("Shoulder", "L")
    /\ out.batter_hand = "L"
    /\ ~Component(out.angles[1], 0).nan
    /\ Component(out.angles[1], 0).v # 0
    /\ out.by_hand["R"] = out.angles
    /\ out.by_hand["S"] = out.angles

\* C28: with the declared adjustments (0, 0, 180), declared signs and a
\* decomposed component 2 in [-180, 180], every defined component 2 that
\* Elbow.angles returns, for either side, is greater than -20 and at most
\* 340; none lies in (340, 360].
C28_ElbowRange ==
    ElbowWithDefaults =>
        \A t \in Samples :
            LET d == Component(out.decomposed[t], 2)
                r == Component(out.angles[t], 2)
            IN  (~d.nan /\ d.v >= -180 /\ d.v <= 180) =>
                    (~r.nan /\ r.v > -20 /\ r.v <= 340)

\* the right elbow with its defaults: decomposed 161 and -180 in
\* component 2 are 341 and 0 after the adjustment, returned as -19 and 0;
\* the left elbow's -180 is 360 after the adjustment, returned as 0
C28_Witness ==
    /\ ElbowWithDefaults
    /\ out.joint.side = "R"
    /\ Component(out.decomposed[1], 2) = Deg(161)
    /\ Component(out.scaled[1], 2) = Deg(341)
    /\ Component(out.angles[1], 2) = Deg(-19)
    /\ Component(out.decomposed[2], 2) = Deg(-180)
    /\ Component(out.angles[2], 2) = Deg(0)

\* the sign vector of the side rule of a joint where the rule fires, None
\* where it does not
SideRule(joint, batter_hand) ==
    CASE joint.type = "Shoulder" /\ joint.side = "R" -> <<-1, 1, -1>>
      [] joint.type = "Elbow" /\ joint.side = "R" -> <<-1, 1, 1>>
      [] joint.type = "Elbow" /\ joint.side = "L" -> <<1, 1, -1>>
      [] joint.type = "Wrist" /\ joint.side = batter_hand -> <<-1, -1, 1>>
      [] joint.type = "Hip" /\ joint.side = "L" -> <<1, 1, -1>>
      [] joint.type = "Knee" /\ joint.side = "L" -> <<-1, 1, 1>>
      [] joint.type = "Ankle" /\ joint.side = "L" -> <<1, 1, 1>>
      [] OTHER -> None

\* the signs and the adjustments a caller passes
PassedSigns == CHOOSE a \in SignArgs : a # None

PassedAdjustments == CHOOSE a \in AdjustmentArgs : a # None

\* C30: in every joint class, signs passed to angles are replaced by the
\* side-specific vector whenever the joint's side rule fires (always for an
\* Elbow with side R or L) and used as passed otherwise; adjustments passed
\* are always applied as passed.
C30_SideRuleOverridesPassedSigns ==
    Returned =>
        /\ out.passed[1] =>
              /\ out.given = PassedSigns
              /\ out.signs = IF SideRule(out.joint, out.batter_hand) # None
                             THEN SideRule(out.joint, out.batter_hand)
                             ELSE PassedSigns
        /\ out.passed[2] =>
              /\ out.adjustments = PassedAdjustments
              /\ \A t \in Samples : \A c \in 0..2 :
                    LET d == Component(out.decomposed[t], c) IN
                    ~d.nan =>
                        Component(out.scaled[t], c) =
                            Deg((d.v * out.signs[c + 1]) + PassedAdjustments[c + 1])

\* the right elbow called with signs (-1, -1, -1) and adjustments
\* (5, 7, 400): signs (-1, 1, 1) are used, so the decomposition
\* (10, 20, 175) gives (-5, 27, 575), returned as (-5, 0, 215)
C30_Witness ==
    /\ Returned
    /\ IsJoint("Elbow", "R")
    /\ out.passed = <<TRUE, TRUE>>
    /\ out.given = <<-1, -1, -1>>
    /\ out.signs = <<-1, 1, 1>>
    /\ out.decomposed[1] = <<Deg(10), Deg(20), Deg(175)>>
    /\ out.scaled[1] = <<Deg(-5), Deg(27), Deg(575)>>
    /\ out.angles[1] = <<Deg(-5), Deg(0), Deg(215)>>

----------------------------------------------------------------------------
(* Append-only time series *)

\* the trial's time series: the one add_custom_markers is building while it
\* runs, the driver's otherwise
Series == IF pc = "synth" THEN ts ELSE markers

FrameNames == {axis_frames_name(parts[a]) : a \in DOMAIN parts}

\* C25: throughout one trial's pipeline a channel of the time series is never
\* removed and keeps its value; a synthesized marker and a part's frames are
\* written to a name that is no channel yet (a virtual name that is a channel
\* already is passed through, the series staying as it is); the frame channel
\* names are pairwise distinct and none is a marker name.
C25_AppendOnly ==
    [][ /\ Cardinality(FrameNames) = Len(parts)
        /\ FrameNames \cap (SeqToSet(RealMarkers) \cup SeqToSet(VirtualNames)) = {}
        /\ pc' # "failed" =>
              \A c \in Keys(Series) : c \in Keys(Series') /\ Series'[c] = Series[c]
        /\ (pc = "synth" /\ i' = i + 1) =>
              IF part_names[i] \in Keys(ts)
              THEN ts' = ts
              ELSE Keys(ts') = Keys(ts) \cup {part_names[i]}
        /\ (pc = "frames" /\ j' = j + 1) =>
              /\ axis_frames_name(parts[j]) \notin Keys(markers)
              /\ Keys(markers') = Keys(markers) \cup {axis_frames_name(parts[j])}
      ]_vars

\* every part's frames written, after a synthesis that passed a supplied
\* virtual marker through: the series holds the trial's channels, one channel
\* per synthesized marker and one per part
C25_Witness ==
    /\ pc = "frames"
    /\ j > Len(parts)
    /\ InputSet \cap SeqToSet(VirtualNames) # {}
    /\ InputSet \subseteq Keys(markers)
    /\ Cardinality(Keys(markers))
         = Cardinality(InputSet \cup SeqToSet(part_names)) + Len(parts)

----------------------------------------------------------------------------
(* The batch driver *)

\* the driver has just computed the angles of joints[nj - 1] of the trial
\* whose metadata it holds
DriverComputed(type) ==
    /\ pc = "table"
    /\ nj > 1
    /\ Returned
    /\ out.joint = joints[nj - 1]
    /\ out.joint.type = type

\* C23: in the batch driver the angles of a wrist are computed with the
\* batter-hand flag parsed from the trial's file name: the call receives the
\* trial's flag, and the angles are those the Wrist sign rule gives for it.
C23_Claimed_DriverPassesBatterHand ==
    DriverComputed("Wrist") =>
        /\ out.batter_hand = metadata.batter_hand
        /\ out.angles = out.by_hand[metadata.batter_hand]

\* the joints whose columns the driver has written in the trial at hand
Written == IF pc = "table" THEN 1..(nj - 1) ELSE {}

\* the column group of a joint type under one prefix
Group(prefix, type) ==
    {prefix \o Lower(type) \o "_angle_" \o AngleVars[c] : c \in DOMAIN AngleVars}

\* C26: in the batch driver, whatever batter-hand flag the trial's metadata
\* holds, the right and the left joint of a type are written to two different
\* column groups, rear_ for the joint on the flag's side and lead_ for the
\* other, so every joint written adds three columns of its own to the table.
C26_Claimed_TwoGroupsForEveryFlag ==
    /\ \A a \in Written :
          joints[a].side # Unsided =>
              Group(IF joints[a].side = metadata.batter_hand
                    THEN "rear_" ELSE "lead_", joints[a].type)
                  \subseteq DOMAIN df_joint_angles
    /\ \A a, b \in Written :
          (joints[a].type = joints[b].type /\ joints[a].side # joints[b].side) =>
              /\ Group("rear_", joints[a].type) \subseteq DOMAIN df_joint_angles
              /\ Group("lead_", joints[a].type) \subseteq DOMAIN df_joint_angles
    /\ pc = "table" =>
          Cardinality(DOMAIN df_joint_angles)
            = Cardinality(DOMAIN DataFrame(0)) + Len(AngleVars) * (nj - 1)

----------------------------------------------------------------------------
(* Catalog closure and ordering *)

JointTypes == {"Shoulder", "Elbow", "Wrist", "Hip", "Knee", "Ankle"}

PartBases ==
    {"scapula", "upper_arm", "forearm", "hand", "hip", "upper_leg",
     "lower_leg", "foot", "heel"}

\* a part of the catalog named for the given side
CatalogPartOn(p, side) ==
    /\ p \in SeqToSet(parts)
    /\ \E base \in PartBases :
          p.name = base \o (IF side = "R" THEN "_r" ELSE "_l")

\* C29: the joint catalog holds exactly one joint per type and side; the
\* proximal and the distal part of every joint are parts of the catalog on
\* the joint's own side; every marker name a catalog part refers to is a
\* virtual node of the marker graph or a real marker name; and in the batch
\* driver the two frame channels of every joint are channels of the series
\* from the first joint on, so that no angles call fails on a missing frame.
C29_CatalogClosedFramesFirst ==
    /\ Len(joints) = 2 * Cardinality(JointTypes)
    /\ \A type \in JointTypes : \A side \in {"R", "L"} :
          \E a \in DOMAIN joints :
              joints[a].type = type /\ joints[a].side = side
    /\ \A a \in DOMAIN joints :
          /\ CatalogPartOn(joints[a].proximal, joints[a].side)
          /\ CatalogPartOn(joints[a].distal, joints[a].side)
    /\ \A a \in DOMAIN parts :
          Referenced(parts[a])
              \subseteq SeqToSet(VirtualNames) \cup SeqToSet(RealMarkers)
    /\ pc = "table" =>
          \A a \in DOMAIN joints : FrameChannels(joints[a]) \subseteq Keys(markers)
    /\ out.status # "KeyError"

\* the driver has computed the angles of every joint of a trial
C29_Witness ==
    /\ pc = "table"
    /\ nj > Len(joints)
    /\ Returned
    /\ out.joint = joints[Len(joints)]
    /\ FrameChannels(out.joint) \subseteq Keys(markers)

----------------------------------------------------------------------------
(* Trial isolation *)

\* the angle columns of a table
AngleColumns(df) ==
    [c \in DOMAIN df \ {"session_swing", "time"} |-> df[c]]

\* the trial at hand, as it was read
CurrentSwing == c3d_swings[Len(c3d_swings)]

============================================================================
